---- MODULE Spec2Model ----
(***************************************************************************)
(* Report-tree flattening (bs.py, bs2.py, bs6.py, components/pnl_table.py) *)
(* days-overdue aging (ar.py) and signed-offset aging (pyth7.py) of the   *)
(* Streamlit dashboards.                                                   *)
(*                                                                         *)
(* Conventions of the model                                                *)
(*   - a report node is a Python dict; its identity is a number 1..n and   *)
(*     a sheet holds the fields of every node plus the child lists;        *)
(*   - an absent key is NoneVal in name/total_label and kind "absent" in   *)
(*     total;                                                              *)
(*   - a row cell holding Python None is <<>>, a populated cell is <<v>>;  *)
(*   - a row carries the identity of the dict it was made from ("id") and, *)
(*     where the code does not record it, the depth argument of the call   *)
(*     that made it ("depth"); both are history fields;                    *)
(*   - a raised exception is the status of the result; the rows collected  *)
(*     so far are lost with the local list, so the result holds none.      *)
(***************************************************************************)
EXTENDS Integers, Sequences, FiniteSets, TLC

\* ---------------------------------------------------------------- bounds
MaxNodes == 4
MaxAmtNodes == 3
MaxChain == 5
MaxDays == 47
MaxFuture == 2
MaxDocs == 2
MaxOffset == 92
MaxBills == 2
MaxPays == 2
MaxTime == 4
MaxCalls == 3
MaxPages == 2

VARIABLES sheet, out, docs, as_of, aging,
          bills, payments, credits, today, table, call,
          script, cache, time, ret, server, loop

vars == <<sheet, out, docs, as_of, aging,
          bills, payments, credits, today, table, call,
          script, cache, time, ret, server, loop>>

\* ------------------------------------------------------------ list helpers
RECURSIVE SetToSeq(_)
SetToSeq(S) ==
  IF S = {} THEN <<>>
  ELSE LET m == CHOOSE x \in S : \A y \in S : x <= y
       IN <<m>> \o SetToSeq(S \ {m})

Range(s) == {s[i] : i \in 1..Len(s)}

IndexOf(s, x) == CHOOSE i \in 1..Len(s) : s[i] = x

RemoveAt(s, i) == SubSeq(s, 1, i - 1) \o SubSeq(s, i + 1, Len(s))

InsertAt(s, i, x) == SubSeq(s, 1, i - 1) \o <<x>> \o SubSeq(s, i, Len(s))

\* ------------------------------------------------------------ report nodes
NoneVal == "<None>"

\* Python truthiness of a str-or-None value (the operand of `or` / `if name`).
Truthy(s) == s \notin {NoneVal, ""}

\* mutant: the total_label fallback is forgotten
ResolvedName_NameOnly(sh, k) == sh.name[k]

\* node.get("name") or node.get("total_label")
ResolvedName(sh, k) ==
  IF Truthy(sh.name[k]) THEN sh.name[k] ELSE sh.total_label[k]

\* (name, total_label) pairs a node may carry: a plain name, an empty name
\* with a label, neither, and the two names bs2.py looks for ("Assets" on
\* top-level sections, "Other Current Assets" below the top level).
NameKinds ==
  { <<"Cash", NoneVal>>, <<"Assets", NoneVal>>,
    <<"Other Current Assets", NoneVal>>, <<"", "Total">>,
    <<NoneVal, NoneVal>> }

NameKindsAt(parent) ==
  IF parent = 0 THEN NameKinds \ {<<"Other Current Assets", NoneVal>>}
  ELSE NameKinds \ {<<"Assets", NoneVal>>}

\* The values of the "total" key: a JSON number, a numeric string, a
\* non-numeric string, null, or no key at all.
Num(v) == [kind |-> "num", val |-> v]
NumStr(v) == [kind |-> "numstr", val |-> v]
BadStr == [kind |-> "badstr", val |-> 0]
Null == [kind |-> "null", val |-> 0]
Absent == [kind |-> "absent", val |-> 0]

TotalOf(kind, k) ==
  CASE kind = "num"    -> Num(10 * k)
    [] kind = "numstr" -> NumStr(10 * k)
    [] kind = "badstr" -> BadStr
    [] kind = "null"   -> Null
    [] OTHER           -> Absent

TotalKinds == {"num", "numstr", "badstr", "null", "absent"}

\* Parent maps of the ordered forests on nodes 1..n, nodes numbered level by
\* level (so a list of children is ascending, and the pre-order is not 1..n).
Shapes(n) ==
  { p \in [1..n -> 0..(n - 1)] :
      \A i \in 1..n : p[i] < i /\ (i > 1 => p[i - 1] <= p[i]) }

MkSheet(n, p, nk, tk) ==
  [ top         |-> SetToSeq({i \in 1..n : p[i] = 0}),
    kids        |-> [k \in 1..n |-> SetToSeq({i \in 1..n : p[i] = k})],
    name        |-> [k \in 1..n |-> nk[k][1]],
    total_label |-> [k \in 1..n |-> nk[k][2]],
    total       |-> [k \in 1..n |-> TotalOf(tk[k], k)] ]

\* Sheets with every kind of name and well-formed totals (a number on odd
\* nodes, a numeric string on even ones).
IsNameSheet(sh) ==
  \E n \in 0..MaxNodes : \E p \in Shapes(n) : \E nk \in [1..n -> NameKinds] :
    /\ \A k \in 1..n : nk[k] \in NameKindsAt(p[k])
    /\ sh = MkSheet(n, p, nk,
                    [k \in 1..n |-> IF k % 2 = 1 THEN "num" ELSE "numstr"])

\* Sheets of named nodes with every kind of total.
IsAmountSheet(sh) ==
  \E n \in 1..MaxAmtNodes : \E p \in Shapes(n) :
    \E tk \in [1..n -> TotalKinds] :
      sh = MkSheet(n, p, [k \in 1..n |-> <<"Cash", NoneVal>>], tk)

\* Chains (each node the only child of the one before), of named and unnamed
\* nodes: the deepest report trees of the model.
IsChainSheet(sh) ==
  \E n \in 1..MaxChain :
    \E nk \in [1..n -> {<<"Cash", NoneVal>>, <<NoneVal, NoneVal>>}] :
      sh = MkSheet(n, [i \in 1..n |-> i - 1], nk, [k \in 1..n |-> "num"])

\* Balance sheets of the sections and groups bs2.py names, with number
\* totals.
AssetNames == {"Assets", "Current Assets", "Other Current Assets", "Cash"}

IsAssetsSheet(sh) ==
  \E n \in 1..MaxNodes : \E p \in Shapes(n) : \E nm \in [1..n -> AssetNames] :
    sh = MkSheet(n, p, [k \in 1..n |-> <<nm[k], NoneVal>>],
                 [k \in 1..n |-> "num"])

NodesOf(sh) == DOMAIN sh.name

\* ------------------------------------------------------- float conversions
Ok(rows) == [st |-> "ok", rows |-> rows]
Raised(exc) == [st |-> exc, rows |-> <<>>]

\* float(node.get("total", 0)): the default serves an absent key only;
\* float(None) raises TypeError and float("abc") raises ValueError.
FloatOfTotal(t) ==
  CASE t.kind = "absent" -> [st |-> "ok", val |-> 0]
    [] t.kind = "num"    -> [st |-> "ok", val |-> t.val]
    [] t.kind = "numstr" -> [st |-> "ok", val |-> t.val]
    [] t.kind = "null"   -> [st |-> "TypeError", val |-> 0]
    [] OTHER             -> [st |-> "ValueError", val |-> 0]

\* float(node.get("total", 0) or 0): None and 0 are falsy and become 0; a
\* non-empty string is truthy and is parsed.
FloatOfTotalOr0(t) ==
  CASE t.kind \in {"absent", "null"} -> [st |-> "ok", val |-> 0]
    [] t.kind = "num"    -> [st |-> "ok", val |-> t.val]
    [] t.kind = "numstr" -> [st |-> "ok", val |-> t.val]
    [] OTHER             -> [st |-> "ValueError", val |-> 0]

\* ------------------------------------------------------ bs6.py flatten_bs
RECURSIVE rec(_, _, _)
RECURSIVE rec_children(_, _, _)

\* The body of rec for one node: the row it appends, if any.
rec_row(sh, k, depth, total) ==
  LET name == ResolvedName(sh, k)
  IN IF Truthy(name)
     THEN << [ Account |-> name, Depth |-> depth, Total |-> total,
               IsGroup |-> sh.kids[k] # <<>>, id |-> k ] >>
     ELSE <<>>

\* mutant: the row is appended after the children are walked
rec_post_order(sh, k, depth) ==
  LET total == FloatOfTotalOr0(sh.total[k])
  IN IF total.st # "ok" THEN Raised(total.st)
     ELSE LET sub == rec_children(sh, sh.kids[k], depth + 1)
          IN IF sub.st # "ok" THEN sub
             ELSE Ok(sub.rows \o rec_row(sh, k, depth, total.val))

rec(sh, k, depth) ==
  LET total == FloatOfTotalOr0(sh.total[k])
  IN IF total.st # "ok" THEN Raised(total.st)
     ELSE LET sub == rec_children(sh, sh.kids[k], depth + 1)
          IN IF sub.st # "ok" THEN sub
             ELSE Ok(rec_row(sh, k, depth, total.val) \o sub.rows)

\* mutant: the walk stops below depth 3
rec_children_limited(sh, children, depth) ==
  IF children = <<>> \/ depth > 3 THEN Ok(<<>>)
  ELSE LET first == rec(sh, Head(children), depth)
       IN IF first.st # "ok" THEN first
          ELSE LET rest == rec_children(sh, Tail(children), depth)
               IN IF rest.st # "ok" THEN rest
                  ELSE Ok(first.rows \o rest.rows)

\* for ch in children: rec(ch, depth)   (and: for sec in sheet: rec(sec, 0))
rec_children(sh, children, depth) ==
  IF children = <<>> THEN Ok(<<>>)
  ELSE LET first == rec(sh, Head(children), depth)
       IN IF first.st # "ok" THEN first
          ELSE LET rest == rec_children(sh, Tail(children), depth)
               IN IF rest.st # "ok" THEN rest
                  ELSE Ok(first.rows \o rest.rows)

flatten_bs(sh) == rec_children(sh, sh.top, 0)

\* ------------------------------------------- bs.py fetch_flat_balance_sheet
RECURSIVE flat_recurse(_, _)
RECURSIVE flat_recurse_all(_, _)

flat_recurse(sh, k) ==
  LET name  == ResolvedName(sh, k)
      total == FloatOfTotal(sh.total[k])
  IN IF total.st # "ok" THEN Raised(total.st)
     ELSE LET own == IF Truthy(name)
                     THEN << [Account |-> name, Balance |-> total.val,
                              id |-> k] >>
                     ELSE <<>>
              sub == flat_recurse_all(sh, sh.kids[k])
          IN IF sub.st # "ok" THEN sub ELSE Ok(own \o sub.rows)

flat_recurse_all(sh, nodes) ==
  IF nodes = <<>> THEN Ok(<<>>)
  ELSE LET first == flat_recurse(sh, Head(nodes))
       IN IF first.st # "ok" THEN first
          ELSE LET rest == flat_recurse_all(sh, Tail(nodes))
               IN IF rest.st # "ok" THEN rest
                  ELSE Ok(first.rows \o rest.rows)

fetch_flat_balance_sheet(sh) == flat_recurse_all(sh, sh.top)

\* ------------------------------------- bs2.py fetch_balance_sheet_4cols
\* Index of the first element of `nodes` whose "name" is `wanted`, 0 if none.
FirstNamed(sh, nodes, wanted) ==
  LET hits == {i \in 1..Len(nodes) : sh.name[nodes[i]] = wanted}
  IN IF hits = {} THEN 0 ELSE CHOOSE i \in hits : \A j \in hits : i <= j

\* Lines 61-74: the first top-level section named "Assets" loses its first
\* child named "Other Current Assets", which is inserted right after it.
extract_other_current(sh) ==
  LET idx == FirstNamed(sh, sh.top, "Assets")
  IN IF idx = 0 THEN sh
     ELSE LET sec == sh.top[idx]
              c   == FirstNamed(sh, sh.kids[sec], "Other Current Assets")
          IN IF c = 0 THEN sh
             ELSE [sh EXCEPT
                     !.kids[sec] = RemoveAt(sh.kids[sec], c),
                     !.top = InsertAt(sh.top, idx + 1, sh.kids[sec][c])]

\* mutant: emptiness is tested before depth
total_column_children_first(depth, children) ==
  IF children = <<>> THEN (IF depth = 0 THEN "Grand Total" ELSE "First Total")
  ELSE "Sub Total"

\* Lines 90-95: the column that receives the total.
total_column(depth, children) ==
  IF depth = 0 THEN "Grand Total"
  ELSE IF children # <<>> THEN "Sub Total"
  ELSE "First Total"

Cell(col, target, total) == IF col = target THEN <<total>> ELSE <<>>

RECURSIVE recurse(_, _, _)
RECURSIVE recurse_children(_, _, _)

recurse(sh, k, depth) ==
  LET name     == ResolvedName(sh, k)
      total    == FloatOfTotal(sh.total[k])
      children == sh.kids[k]
  IN IF total.st # "ok" THEN Raised(total.st)
     ELSE LET col == total_column(depth, children)
              own == IF Truthy(name)
                     THEN << [ Account     |-> name,
                               FirstTotal  |-> Cell("First Total", col, total.val),
                               SubTotal    |-> Cell("Sub Total", col, total.val),
                               GrandTotal  |-> Cell("Grand Total", col, total.val),
                               id |-> k, depth |-> depth ] >>
                     ELSE <<>>
              sub == recurse_children(sh, children, depth + 1)
          IN IF sub.st # "ok" THEN sub ELSE Ok(own \o sub.rows)

recurse_children(sh, children, depth) ==
  IF children = <<>> THEN Ok(<<>>)
  ELSE LET first == recurse(sh, Head(children), depth)
       IN IF first.st # "ok" THEN first
          ELSE LET rest == recurse_children(sh, Tail(children), depth)
               IN IF rest.st # "ok" THEN rest
                  ELSE Ok(first.rows \o rest.rows)

\* The rows of fetch_balance_sheet_4cols for a sheet already rearranged.
fetch_balance_sheet_4cols(sh) == recurse_children(sh, sh.top, 0)

\* ----------------------------- components/pnl_table.py create_pnl_dataframe
\* section.get('name', ''): the default serves an absent key.
NameOrEmpty(sh, k) == IF sh.name[k] = NoneVal THEN "" ELSE sh.name[k]

RECURSIVE Indent(_)
Indent(level) == IF level = 0 THEN "" ELSE "  " \o Indent(level - 1)

\* format_currency, kept symbolic: "$0.00", "$<amount>" or "($<amount>)".
format_currency(amount) ==
  IF amount = 0 THEN [style |-> "zero", abs |-> 0]
  ELSE IF amount > 0 THEN [style |-> "plain", abs |-> amount]
  ELSE [style |-> "parens", abs |-> 0 - amount]

pnl_row(sh, k, level, type, total) ==
  [ Account |-> Indent(level) \o NameOrEmpty(sh, k), Amount |-> total,
    Formatted |-> format_currency(total), Level |-> level, Type |-> type,
    id |-> k ]

\* One level of process_section: the row of each node of `nodes`, followed
\* by the next level's rows of its children; levels below sub_account are
\* not visited.
RECURSIVE pnl_level(_, _, _)
pnl_level(sh, nodes, level) ==
  IF nodes = <<>> \/ level > 2 THEN Ok(<<>>)
  ELSE LET k     == Head(nodes)
           total == FloatOfTotal(sh.total[k])
           type  == CASE level = 0 -> "section"
                      [] level = 1 -> "account"
                      [] OTHER     -> "sub_account"
       IN IF total.st # "ok" THEN Raised(total.st)
          ELSE LET sub == pnl_level(sh, sh.kids[k], level + 1)
               IN IF sub.st # "ok" THEN sub
                  ELSE LET rest == pnl_level(sh, Tail(nodes), level)
                       IN IF rest.st # "ok" THEN rest
                          ELSE Ok(<<pnl_row(sh, k, level, type, total.val)>>
                                  \o sub.rows \o rest.rows)

create_pnl_dataframe(sh) == pnl_level(sh, sh.top, 0)

\* ------------------------------------------------------------- the dashboards
NoOut == [op |-> "none", st |-> "ok", rows |-> <<>>]

Result(op, r) == [op |-> op, st |-> r.st, rows |-> r.rows]

InitTree ==
  /\ IsNameSheet(sheet) \/ IsAmountSheet(sheet) \/ IsChainSheet(sheet)
  /\ out = NoOut

\* mutant: the walk consumes the list of sections it iterates
FlattenBs_Consuming ==
  /\ out' = Result("flatten_bs", flatten_bs(sheet))
  /\ sheet' = [sheet EXCEPT !.top = <<>>]

\* bs6.py: current_df = flatten_bs(current_json)
FlattenBs ==
  /\ out' = Result("flatten_bs", flatten_bs(sheet))
  /\ UNCHANGED sheet

\* bs.py: flat_bs = fetch_flat_balance_sheet(as_of)
FetchFlat ==
  /\ out' = Result("fetch_flat_balance_sheet", fetch_flat_balance_sheet(sheet))
  /\ UNCHANGED sheet

\* bs2.py: df = fetch_balance_sheet_4cols(as_of), on the parsed response
Fetch4Cols ==
  /\ sheet' = extract_other_current(sheet)
  /\ out' = Result("fetch_balance_sheet_4cols",
                   fetch_balance_sheet_4cols(sheet'))

\* pnl_table.py: df = create_pnl_dataframe(pnl_data)
CreatePnl ==
  /\ out' = Result("create_pnl_dataframe", create_pnl_dataframe(sheet))
  /\ UNCHANGED sheet

\* ------------------------------------------------------------ ar.py: aging
\* A date is a day number; a missing due date ("" in the payload, NaT after
\* pd.to_datetime) is <<>> and a present one is <<day>>.  Amounts are in
\* thousandths of a currency unit (50000 is 50.000).  An optional number is <<>> or <<v>>.
\* Counterparty names in the order pandas sorts them.
Names == <<"Acme", "Zed">>

\* A record of the payload.  due_date <<>> is a null or empty due date;
\* exchange_rate <<>> is a record without that key.
Document(name, due, balance, rate) ==
  [ counterparty |-> name, due_key |-> TRUE, due_date |-> due,
    balance |-> balance, exchange_rate |-> rate ]

\* the same record without the "due_date" key
WithoutDueDate(d) == [d EXCEPT !.due_key = FALSE, !.due_date = <<>>]

\* floats that a division can produce
Fin(v) == [kind |-> "fin", val |-> v]
Inf == [kind |-> "inf", val |-> 1]
NegInf == [kind |-> "inf", val |-> 0 - 1]
NaN == [kind |-> "nan", val |-> 0]

\* balance / exchange_rate on float64 columns: x / 0 is +-inf, 0 / 0 and
\* x / NaN are NaN, and no exception is raised.
FloatDiv(balance, rate) ==
  IF rate = <<>> THEN NaN
  ELSE IF rate[1] = 0
       THEN (IF balance = 0 THEN NaN ELSE IF balance > 0 THEN Inf ELSE NegInf)
  ELSE Fin(balance \div rate[1])

\* line 124-125
Edges == <<0 - 1, 0, 15, 30, 45>>
labels == <<"Current", "1-15 days", "16-30 days", "31-45 days", ">45 days">>

\* mutant: the bins are closed on the left (right=False)
cut_left_closed(x) ==
  LET hit == {i \in 1..Len(Edges) :
                /\ Edges[i] <= x
                /\ (i < Len(Edges) => x < Edges[i + 1])}
  IN IF hit = {} THEN <<>> ELSE <<labels[CHOOSE i \in hit : TRUE]>>

\* pd.cut(x, bins=[-1, 0, 15, 30, 45, inf], labels=labels): bin i is the
\* right-closed interval (bins[i], bins[i+1]]; a value in no bin is NaN (<<>>).
cut(x) ==
  LET hit == {i \in 1..Len(Edges) :
                /\ Edges[i] < x
                /\ (i < Len(Edges) => x <= Edges[i + 1])}
  IN IF hit = {} THEN <<>> ELSE <<labels[CHOOSE i \in hit : TRUE]>>

\* mutant: the future-due rows are not dropped
not_future_keep_all(d, asof) == d.due_date # <<>>

\* df[df["due_date"] <= as_of]: a comparison with NaT is False.
not_future(d, asof) == d.due_date # <<>> /\ d.due_date[1] <= asof

\* lines 120-132 for the kept row with index label i
aging_row(df, i, asof, has_rate) ==
  LET d    == df[i]
      days == asof - d.due_date[1]
  IN [ index |-> i,
       counterparty |-> d.counterparty, due_date |-> d.due_date,
       balance |-> d.balance, exchange_rate |-> d.exchange_rate,
       days_overdue |-> days, Bucket |-> cut(days),
       fcy_balance |-> IF has_rate THEN FloatDiv(d.balance, d.exchange_rate)
                       ELSE Fin(d.balance) ]

RECURSIVE aging_rows(_, _, _, _)
aging_rows(df, i, asof, has_rate) ==
  IF i > Len(df) THEN <<>>
  ELSE (IF not_future(df[i], asof)
        THEN <<aging_row(df, i, asof, has_rate)>> ELSE <<>>)
       \o aging_rows(df, i + 1, asof, has_rate)

\* pd.DataFrame(records) has a column for every key some record carries,
\* and NaN where a record lacks the key.
has_column_due_date(df) == \E i \in 1..Len(df) : df[i].due_key
has_column_exchange_rate(df) == \E i \in 1..Len(df) : df[i].exchange_rate # <<>>

\* compute_aging(df, as_of): df["due_date"] raises KeyError on a frame
\* without that column (line 115); a kept row keeps its index label.
compute_aging(df, asof) ==
  IF ~has_column_due_date(df) THEN Raised("KeyError")
  ELSE Ok(aging_rows(df, 1, asof, has_column_exchange_rate(df)))

\* sum of the balances of the rows of `rows` that satisfy the two keys
RECURSIVE SumBalance(_, _, _)
SumBalance(rows, name, bucket) ==
  IF rows = <<>> THEN 0
  ELSE (IF Head(rows).counterparty = name /\ Head(rows).Bucket = <<bucket>>
        THEN Head(rows).balance ELSE 0)
       + SumBalance(Tail(rows), name, bucket)

\* float sum of fcy_balance with skipna: NaN is skipped, inf absorbs.
FloatAdd(a, b) ==
  IF a.kind = "nan" THEN b
  ELSE IF b.kind = "nan" THEN a
  ELSE IF a.kind = "inf" /\ b.kind = "inf"
       THEN (IF a.val = b.val THEN a ELSE NaN)
  ELSE IF a.kind = "inf" THEN a
  ELSE IF b.kind = "inf" THEN b
  ELSE Fin(a.val + b.val)

RECURSIVE SumFcy(_, _)
SumFcy(rows, name) ==
  IF rows = <<>> THEN Fin(0)
  ELSE LET rest == SumFcy(Tail(rows), name)
       IN IF Head(rows).counterparty = name /\ Head(rows).Bucket # <<>>
          THEN (IF Head(rows).fcy_balance.kind = "nan" THEN rest
                ELSE IF rest.kind = "nan" THEN rest
                ELSE FloatAdd(Head(rows).fcy_balance, rest))
          ELSE rest

\* round(2) of an amount in thousandths: to the nearest hundredth, ties to
\* the even hundredth.
Round2(x) ==
  LET q == x \div 10
      r == x % 10
  IN IF r < 5 THEN 10 * q
     ELSE IF r > 5 THEN 10 * (q + 1)
     ELSE IF q % 2 = 0 THEN 10 * q ELSE 10 * (q + 1)

RoundFloat2(f) == IF f.kind = "fin" THEN Fin(Round2(f.val)) ELSE f

\* lines 151-178 (and 192-215): the pivot by counterparty and bucket, the
\* five bucket columns in the fixed order, Total, and Total (FCY) in front.
\* pivot_table sorts its index, and only counterparties with a row appear.
summary_row(rows, name) ==
  LET cells == [b \in 1..Len(labels) |-> SumBalance(rows, name, labels[b])]
      RECURSIVE Across(_)
      Across(b) == IF b = 0 THEN 0 ELSE cells[b] + Across(b - 1)
  IN [ counterparty |-> name,
       TotalFCY |-> RoundFloat2(SumFcy(rows, name)),
       cells |-> cells,
       Total |-> Round2(Across(Len(labels))) ]

RECURSIVE summary_rows(_, _)
summary_rows(rows, i) ==
  IF i > Len(Names) THEN <<>>
  ELSE (IF \E j \in 1..Len(rows) :
              rows[j].counterparty = Names[i] /\ rows[j].Bucket # <<>>
        THEN <<summary_row(rows, Names[i])>> ELSE <<>>)
       \o summary_rows(rows, i + 1)

aging_summary(rows) == summary_rows(rows, 1)

\* The column labels of the summary, step by step.  pivot_table(columns=
\* "Bucket") has a column per bucket that holds a row, in category order.
pivot_columns(rows) ==
  SelectSeq(labels, LAMBDA b : \E j \in 1..Len(rows) : rows[j].Bucket = <<b>>)

\* line 166: the five buckets, whatever the pivot had
buckets == <<"Current", "1-15 days", "16-30 days", "31-45 days", ">45 days">>

\* mutant: the pivot's columns are kept as they are
reindex_columns_skipped(cols, wanted) == cols

reindex_columns(cols, wanted) == wanted

\* line 178: the index becomes the first column and is renamed
rename_index(c) ==
  IF c = "customer_name" THEN "Customer Name"
  ELSE IF c = "vendor_name" THEN "Vendor Name"
  ELSE c

\* lines 166-178: reindex, ["Total"] = ..., insert(0, "Total (FCY)", ...),
\* reset_index().rename(...)
summary_columns(rows, index_name) ==
  LET bal == reindex_columns(pivot_columns(rows), buckets) \o <<"Total">>
  IN <<rename_index(index_name)>> \o InsertAt(bal, 1, "Total (FCY)")

\* The documents handed to compute_aging, and the as-of dates.
AsOfDates == {MaxDays, MaxDays + 1}
DueDates == {<<>>} \cup {<<d>> : d \in 0..(MaxDays + MaxFuture)}
NearDues(asof) == {<<>>} \cup {<<asof - o>> : o \in {0 - 1, 0, 1, 46}}
Balances == {50000, 200000}
SubCentBalances == {50005}
Rates == {<<>>, <<2>>, <<0>>}

\* one document with any due date and any exchange rate
SingleDocs ==
  { <<Document(n, due, b, r)>> :
      n \in Range(Names), due \in DueDates,
      b \in Balances \cup SubCentBalances, r \in Rates }
  \cup { <<WithoutDueDate(Document(n, <<>>, b, r))>> :
           n \in Range(Names), b \in Balances, r \in Rates }

\* up to MaxDocs documents with due dates around the bucket edges
SeveralDocs(asof) ==
  LET some == { Document(nm, due, b, r) :
                  nm \in Range(Names), due \in NearDues(asof),
                  b \in Balances, r \in {<<>>, <<2>>} }
      bare == { WithoutDueDate(d) : d \in some }
  IN UNION { [1..n -> some \cup bare] : n \in 0..MaxDocs }

NoAging ==
  [op |-> "none", st |-> "ok", df |-> <<>>, summary |-> <<>>, columns |-> <<>>]

\* compute_aging and the pivot of its result; an exception ends the script
\* before any summary is built.
run_aging(op, index_name) ==
  LET res == compute_aging(docs, as_of)
  IN IF res.st # "ok"
     THEN [ op |-> op, st |-> res.st, df |-> <<>>, summary |-> <<>>,
            columns |-> <<>> ]
     ELSE [ op |-> op, st |-> "ok", df |-> res.rows,
            summary |-> aging_summary(res.rows),
            columns |-> summary_columns(res.rows, index_name) ]

InitAging ==
  /\ \/ as_of \in AsOfDates /\ docs \in SingleDocs
     \/ as_of = MaxDays /\ docs \in SeveralDocs(as_of)
  /\ aging = NoAging

\* ar.py lines 146-178 on the invoices already fetched; an exception raised
\* earlier has ended the script.
ArAging ==
  /\ aging.st = "ok"
  /\ aging' = run_aging("ar", "customer_name")
  /\ UNCHANGED <<docs, as_of>>

\* ar.py lines 187-215 on the bills already fetched
ApAging ==
  /\ aging.st = "ok"
  /\ aging' = run_aging("ap", "vendor_name")
  /\ UNCHANGED <<docs, as_of>>

\* ------------------------------------------ signed-offset aging (pyth7.py)
\* (pyth10.py and initial/pyth5.py hold the same code)
\* A day count is <<n>>, or <<>> for float NaN; every comparison with NaN is
\* False.
Lt(days, n) == days # <<>> /\ days[1] < n
Le(days, n) == days # <<>> /\ days[1] <= n

\* mutant: the first bucket ends before 30
assign_aging_bucket_open(days) ==
  IF Lt(days, 0) THEN "Overdue"
  ELSE IF Lt(days, 30) THEN "0-30 days"
  ELSE IF Le(days, 60) THEN "31-60 days"
  ELSE IF Le(days, 90) THEN "61-90 days"
  ELSE ">90 days"

\* assign_aging_bucket(days), lines 126-135 (the labels are written with a
\* plain hyphen here)
assign_aging_bucket(days) ==
  IF Lt(days, 0) THEN "Overdue"
  ELSE IF Le(days, 30) THEN "0-30 days"
  ELSE IF Le(days, 60) THEN "31-60 days"
  ELSE IF Le(days, 90) THEN "61-90 days"
  ELSE ">90 days"

\* Dates are days since 1970-01-01; due_date <<>> is NaT.
Bill(id, due, total) == [bill_id |-> id, due_date |-> due, total |-> total]
Payment(id, amount) == [bill_id |-> id, paid_amount |-> amount]
Credit(id, amount) == [bill_id |-> id, credit_amount |-> amount]

\* groupby("bill_id")[column].sum(), read at one bill: <<>> (NaN after the
\* alignment of line 162) for a bill without a row
RECURSIVE SumRows(_, _)
SumRows(rows, id) ==
  IF rows = <<>> THEN 0
  ELSE (IF Head(rows).bill_id = id THEN Head(rows).amount ELSE 0)
       + SumRows(Tail(rows), id)

\* lines 151-159: a Series of zeros when the frame is empty, else the sums
SumFor(rows, id) ==
  IF rows = <<>> THEN <<0>>
  ELSE IF \E i \in 1..Len(rows) : rows[i].bill_id = id
       THEN <<SumRows(rows, id)>>
  ELSE <<>>

\* the columns paid_amount and credit_amount
paid_amounts(rows) ==
  [i \in 1..Len(rows) |->
     [bill_id |-> rows[i].bill_id, amount |-> rows[i].paid_amount]]
credit_amounts(rows) ==
  [i \in 1..Len(rows) |->
     [bill_id |-> rows[i].bill_id, amount |-> rows[i].credit_amount]]

\* mutant: the credits are not subtracted
amount_due_without_credit(total, total_paid, total_credit) == total - total_paid

\* line 165
amount_due(total, total_paid, total_credit) == total - total_paid - total_credit

\* fillna(0) on a number column
fillna(cell) == IF cell = <<>> THEN <<0>> ELSE cell

\* fillna(0), line 164, on the datetime column due_date: a pandas that
\* keeps the column datetime reads 0 as 1970-01-01 ("epoch"), one that
\* stores the int 0 makes the column object ("object"), and then
\* df["due_date"] - today raises TypeError (line 169).
FillOutcomes == {"epoch", "object"}

\* (due_date - today).dt.days: whole days, rounded down, so a time of day in
\* `today` takes one day off
days_to_due(due, now) ==
  (IF due = <<>> THEN 0 ELSE due[1]) - now.day - (IF now.midnight THEN 0 ELSE 1)

\* lines 161-170 for one bill
bill_row(b) ==
  LET total_paid   == fillna(SumFor(paid_amounts(payments), b.bill_id))[1]
      total_credit == fillna(SumFor(credit_amounts(credits), b.bill_id))[1]
      days         == days_to_due(b.due_date, today)
  IN [ bill_id |-> b.bill_id, due_date |-> b.due_date, total |-> b.total,
       total_paid |-> total_paid, total_credit |-> total_credit,
       amount_due |-> amount_due(b.total, total_paid, total_credit),
       days_to_due |-> days,
       aging_bucket |-> assign_aging_bucket(<<days>>) ]

\* load_data(), lines 139-171: df["bill_id"] raises KeyError on the frame of
\* no bills (line 143)
load_data(fill) ==
  IF bills = <<>> THEN Raised("KeyError")
  ELSE IF fill = "object" /\ \E i \in 1..Len(bills) : bills[i].due_date = <<>>
       THEN Raised("TypeError")
  ELSE Ok([i \in 1..Len(bills) |-> bill_row(bills[i])])

\* the group keys in the order groupby sorts them
SortedBuckets ==
  <<"0-30 days", "31-60 days", "61-90 days", ">90 days", "Overdue">>

RECURSIVE SumDue(_, _)
SumDue(rows, bucket) ==
  IF rows = <<>> THEN 0
  ELSE (IF Head(rows).aging_bucket = bucket THEN Head(rows).amount_due ELSE 0)
       + SumDue(Tail(rows), bucket)

CountIn(rows, bucket) ==
  Cardinality({i \in 1..Len(rows) : rows[i].aging_bucket = bucket})

\* pyth7.py lines 198-203 (pyth10.py line 174), with no sidebar filter set:
\* groupby("aging_bucket").agg(total_due=sum of amount_due, count of
\* bill_id), one row per bucket that holds a bill
RECURSIVE bucket_summary(_, _)
bucket_summary(rows, k) ==
  IF k > Len(SortedBuckets) THEN <<>>
  ELSE (IF CountIn(rows, SortedBuckets[k]) = 0 THEN <<>>
        ELSE << [ aging_bucket |-> SortedBuckets[k],
                  total_due |-> SumDue(rows, SortedBuckets[k]),
                  count |-> CountIn(rows, SortedBuckets[k]) ] >>)
       \o bucket_summary(rows, k + 1)

\* the inputs
Midday == [day |-> MaxOffset + 1, midnight |-> FALSE]
Midnight == [day |-> MaxOffset + 1, midnight |-> TRUE]
Offsets == (0 - MaxOffset)..MaxOffset
DayCounts == {<<n>> : n \in Offsets} \cup {<<>>}

NoCall == [arg |-> <<>>, st |-> "idle", val |-> ""]
NoTable == [op |-> "none", st |-> "ok", rows |-> <<>>, summary |-> <<>>]

\* up to MaxPays payments (credits) of the bills 1..n
PaymentRows(n) ==
  UNION { [1..k -> {Payment(id, 50) : id \in 1..n}] : k \in 0..MaxPays }
CreditRows(n) ==
  UNION { [1..k -> {Credit(id, 60) : id \in 1..n}] : k \in 0..MaxPays }

\* the bills of a payload have distinct ids: bill i has bill_id i
NumberedBills(bs) == [i \in 1..Len(bs) |-> [bs[i] EXCEPT !.bill_id = i]]

\* one bill with any due date and no payment, or up to MaxBills bills due
\* today or without a due date, with payments and credits
InitBills ==
  /\ today \in {Midday, Midnight}
  /\ \/ /\ \E due \in {<<today.day + o>> : o \in Offsets} \cup {<<>>} :
             bills = <<Bill(1, due, 100)>>
        /\ payments = <<>> /\ credits = <<>>
     \/ \E n \in 0..MaxBills :
          /\ \E bs \in [1..n -> {Bill(0, due, 100) :
                                   due \in {<<today.day>>, <<>>}}] :
               bills = NumberedBills(bs)
          /\ payments \in PaymentRows(n)
          /\ credits \in CreditRows(n)
  /\ table = NoTable
  /\ call = NoCall

InitCall ==
  /\ call \in {[arg |-> d, st |-> "none", val |-> ""] : d \in DayCounts}
  /\ bills = <<>> /\ payments = <<>> /\ credits = <<>>
  /\ today = Midnight /\ table = NoTable

NoBills ==
  /\ bills = <<>> /\ payments = <<>> /\ credits = <<>>
  /\ today = Midnight /\ table = NoTable /\ call = NoCall

\* pyth7.py load_data, once per run (st.cache_data), and the aging summary
\* of main; an exception of load_data ends the script.
LoadData ==
  /\ call = NoCall /\ table.op = "none"
  /\ \E fill \in FillOutcomes :
       LET df == load_data(fill)
       IN table' = [ op |-> "load_data", st |-> df.st, rows |-> df.rows,
                     summary |-> bucket_summary(df.rows, 1) ]
  /\ UNCHANGED <<bills, payments, credits, today, call>>

\* a direct call assign_aging_bucket(arg), as in initial/pyth8.py
AssignAgingBucket ==
  /\ call.st = "none"
  /\ call' = [call EXCEPT !.st = "ok", !.val = assign_aging_bucket(call.arg)]
  /\ UNCHANGED <<bills, payments, credits, today, table>>

\* ============================================================ OAuth token
\* Every script keeps one access token per process in a module-level dict
\* and refreshes it over HTTP.  Time is the value of time.time(), in seconds.  A token is
\* a number: EnvToken is the value of ZOHO_ACCESS_TOKEN, k >= 1 is the k-th
\* token the endpoint issued; None is <<>>.  The variants: "ar" (ar.py),
\* "bs7" (bs7.py, the same code under other names), "app" (app.py, bs2.py),
\* "pyth10" (pyth10.py, pyth7.py, pyth11.py), "pyth3" (pyth3.py) and
\* "pyth4" (pyth4.py, which imports the token code of pyth3.py).
EnvToken == 0

\* data.get("expires_in", 3600) and the margin in "+ expires_in - 60"
default_expires_in == 3600
margin == 60

\* mutant: the cache starts with an expiry in the future
InitialCache_unexpired(tok) ==
  [access_token |-> tok, expires_at |-> default_expires_in]

\* _token_cache = {"access_token": ..., "expires_at": 0}
InitialCache(tok) == [access_token |-> tok, expires_at |-> 0]

\* ar.py and bs7.py start from None; the others from os.getenv(
\* "ZOHO_ACCESS_TOKEN"), which is None when the variable is not set.
InitialCaches(scr) ==
  IF scr \in {"ar", "bs7"} THEN {InitialCache(<<>>)}
  ELSE {InitialCache(<<>>), InitialCache(<<EnvToken>>)}

\* What the token endpoint answers: a token with or without "expires_in"
\* (a lifetime of margin + d seconds), an error status whose body carries
\* no token, or a 200 without "access_token".
TokenResponses ==
  {[kind |-> "ok", expires_in |-> e] :
     e \in {<<>>} \cup {<<margin + d>> : d \in 0..2}}
    \cup {[kind |-> k, expires_in |-> <<>>] : k \in {"error", "no_token"}}

\* pyth3.py has no resp.raise_for_status() and compares with ">"
raises_for_status(scr) == scr \notin {"pyth3", "pyth4"}

\* the POST to TOKEN_URL at time t, as the endpoint saw and answered it
token_request(t, o, fresh) ==
  [ url |-> "token", at |-> t, result |-> o.kind,
    token |-> IF o.kind = "ok" THEN <<fresh>> ELSE <<>>,
    expires_in |-> o.expires_in ]

\* resp.raise_for_status() raises HTTPError; data["access_token"] raises
\* KeyError on a body without that key.
refresh_status(scr, o) ==
  IF o.kind = "error" /\ raises_for_status(scr) THEN "HTTPError"
  ELSE IF o.kind # "ok" THEN "KeyError"
  ELSE "ok"

\* time.time() + expires_in - 60
new_expires_at(t, o) ==
  t + (IF o.expires_in = <<>> THEN default_expires_in ELSE o.expires_in[1])
    - margin

\* mutant: the expiry is written before the response is examined
refresh_writing_first(scr, c, t, o, fresh) ==
  LET s == refresh_status(scr, o)
  IN [ st |-> s,
       val |-> IF s = "ok" THEN <<fresh>> ELSE <<>>,
       cache |-> [ access_token |-> IF s = "ok" THEN <<fresh>>
                                    ELSE c.access_token,
                   expires_at |-> new_expires_at(t, o) ],
       requests |-> <<token_request(t, o, fresh)>> ]

\* _refresh_token / _refresh_access_token / refresh_token: the two cache
\* fields are written after every statement that can raise.
refresh(scr, c, t, o, fresh) ==
  LET s == refresh_status(scr, o)
  IN [ st |-> s,
       val |-> IF s = "ok" THEN <<fresh>> ELSE <<>>,
       cache |-> IF s = "ok"
                 THEN [ access_token |-> <<fresh>>,
                        expires_at |-> new_expires_at(t, o) ]
                 ELSE c,
       requests |-> <<token_request(t, o, fresh)>> ]

\* mutant: a cached token never expires
never_expired(scr, c, t) == FALSE

\* time.time() >= expires_at, and time.time() > expires_at in pyth3.py
expired(scr, c, t) ==
  IF scr \in {"pyth3", "pyth4"} THEN t > c.expires_at ELSE t >= c.expires_at

\* get_token / get_access_token / token
get_token(scr, c, t, o, fresh) ==
  IF c.access_token = <<>> \/ expired(scr, c, t)
  THEN refresh(scr, c, t, o, fresh)
  ELSE [st |-> "ok", val |-> c.access_token, cache |-> c, requests |-> <<>>]

\* The answers the token endpoint can give to a call made at time t with
\* cache c: any answer when the call asks it, and one placeholder when the
\* call does not ask, since no answer is then read.
Answers(scr, c, t) ==
  IF c.access_token = <<>> \/ expired(scr, c, t) THEN TokenResponses
  ELSE {[kind |-> "ok", expires_in |-> <<>>]}

\* tokens the endpoint issued in the requests `reqs`
IssuedBy(reqs) ==
  Len(SelectSeq(reqs, LAMBDA q : q.url = "token" /\ q.result = "ok"))

\* The last call of the process: its number, how it ended, what it returned,
\* the HTTP requests it made, and how many tokens were issued so far.
NoRet ==
  [op |-> "none", calls |-> 0, st |-> "ok", val |-> <<>>, trace |-> <<>>,
   issued |-> 0]

Returned(op, r) ==
  [ op |-> op, calls |-> ret.calls + 1, st |-> r.st, val |-> r.val,
    trace |-> r.requests, issued |-> ret.issued + IssuedBy(r.requests) ]

\* one call of get_token() / get_access_token()
GetAccessToken ==
  /\ script \in {"ar", "app", "pyth3"}
  /\ ret.calls < MaxCalls
  /\ \E o \in Answers(script, cache, time) :
       LET r == get_token(script, cache, time, o, ret.issued + 1)
       IN /\ cache' = r.cache
          /\ ret' = Returned("get_access_token", r)
  /\ UNCHANGED <<script, time, server, loop>>

\* the clock advances by a second
Tick ==
  /\ time < MaxTime
  /\ time' = time + 1
  /\ UNCHANGED <<script, cache, ret, server, loop>>

\* ------------------------------------------------------------ bs7.py fetch_bs
ReportStatuses == {200, 401, 500}

\* mutant: every error status is retried
retry_on_any_error(status) == status >= 400

\* r.status_code == 401
retry_on(status) == status = 401

\* r.raise_for_status()
raise_for_status(status) == IF status >= 400 THEN "HTTPError" ELSE "ok"

report_request(t, tok, status) ==
  [url |-> "report", at |-> t, token |-> tok, status |-> status]

\* fetch_bs at time t: o1, o2, o3 are the answers of the token endpoint to
\* token(), refresh_token() and the second token(); s1, s2 those of the
\* report endpoint.  The result carries the requests in the order made.
fetch_bs(c, t, issued, o1, o2, o3, s1, s2) ==
  LET t1   == get_token("bs7", c, t, o1, issued + 1)
      tr1  == t1.requests \o <<report_request(t, t1.val, s1)>>
      rf   == refresh("bs7", t1.cache, t, o2, issued + IssuedBy(tr1) + 1)
      tr2  == tr1 \o rf.requests
      t2   == get_token("bs7", rf.cache, t, o3, issued + IssuedBy(tr2) + 1)
      tr3  == tr2 \o t2.requests
  IN IF t1.st # "ok"
     THEN [st |-> t1.st, val |-> <<>>, cache |-> t1.cache,
           requests |-> t1.requests]
     ELSE IF ~retry_on(s1)
     THEN [st |-> raise_for_status(s1), val |-> <<>>, cache |-> t1.cache,
           requests |-> tr1]
     ELSE IF rf.st # "ok"
     THEN [st |-> rf.st, val |-> <<>>, cache |-> rf.cache, requests |-> tr2]
     ELSE IF t2.st # "ok"
     THEN [st |-> t2.st, val |-> <<>>, cache |-> t2.cache, requests |-> tr3]
     ELSE [st |-> raise_for_status(s2), val |-> <<>>, cache |-> t2.cache,
           requests |-> tr3 \o <<report_request(t, t2.val, s2)>>]

FetchBs ==
  /\ script = "bs7"
  /\ ret.calls < MaxCalls
  /\ \E o1 \in Answers("bs7", cache, time), s1 \in ReportStatuses :
     \E o2 \in (IF retry_on(s1) THEN TokenResponses ELSE {o1}) :
     \E o3 \in (IF retry_on(s1)
                THEN Answers("bs7", refresh("bs7", cache, time, o2, 0).cache, time)
                ELSE {o1}) :
     \E s2 \in (IF retry_on(s1) THEN ReportStatuses ELSE {s1}) :
       LET r == fetch_bs(cache, time, ret.issued, o1, o2, o3, s1, s2)
       IN /\ cache' = r.cache
          /\ ret' = Returned("fetch_bs", r)
  /\ UNCHANGED <<script, time, server, loop>>

\* ------------------------------------------------------------ paginated fetch
\* "per_page": 200
per_page == 200

\* An item of a page: a document of the payload with its status and, so
\* that items can be told apart, its place <<page, index>> on the server.
RawDocument(p, i, status, balance) ==
  [ counterparty |-> Names[1], due_key |-> TRUE, due_date |-> <<0>>,
    balance |-> balance, exchange_rate |-> <<>>,
    status |-> status, id |-> <<p, i>> ]

\* page p holding n open documents
PageOfLength(p, n) == [i \in 1..n |-> RawDocument(p, i, "sent", 50000)]

\* A server: its first pages, and the length of every page after them
\* (0: they are empty).
Server(pages, tail) == [pages |-> pages, tail |-> tail]

page_of(sv, p) ==
  IF p <= Len(sv.pages) THEN sv.pages[p] ELSE PageOfLength(p, sv.tail)

\* servers of up to MaxPages pages with lengths in `lens`, and the tails in `tails`
PagedServers(lens, tails) ==
  UNION { { Server([p \in 1..n |-> PageOfLength(p, l[p])], tl) :
              l \in [1..n -> lens], tl \in tails } : n \in 0..MaxPages }

\* servers with one page of one or two documents of every status and balance
MixedServers ==
  { Server(<< [i \in 1..Len(k) |-> RawDocument(1, i, k[i][1], k[i][2])] >>, 0) :
      k \in UNION { [1..n -> {"sent", "draft", "Void", "PAID"}
                                \X {0 - 50000, 0, 50000}] : n \in 1..2 } }

ServersOf(scr) ==
  IF scr = "ar" THEN MixedServers \cup PagedServers({1, 2}, {0, 1})
  ELSE PagedServers({1, per_page - 1, per_page}, {0, per_page})

\* The running fetch: where it is, the page to request next, the items so
\* far and, in the scripts that build the headers once, the token in them.
Loop(pc, page, items, headers) ==
  [pc |-> pc, page |-> page, items |-> items, headers |-> headers]

page_request(t, p, tok, status, batch) ==
  [ url |-> "page", at |-> t, page |-> p, token |-> tok, status |-> status,
    count |-> Len(batch) ]

\* mutant: a short page ends no loop
never_stop_on_short(scr, batch) == FALSE

\* "if len(data) < per_page: break", which ar.py does not have
stop_on_short(scr, batch) == scr # "ar" /\ Len(batch) < per_page

Lower(s) ==
  CASE s = "Void" -> "void"
    [] s = "PAID" -> "paid"
    [] OTHER -> s

\* mutant: the status is compared as it came
keep_open_case_sensitive(d) ==
  d.status \notin {"draft", "void", "paid"} /\ d.balance > 0

\* ~df["status"].isin(["draft", "void", "paid"]) & (df["balance"] > 0),
\* after df["status"].str.lower()
keep_open(d) == Lower(d.status) \notin {"draft", "void", "paid"} /\ d.balance > 0

\* ar.py lines 68-77: pd.DataFrame([]) has no "balance" column
open_filter(all_inv) ==
  IF all_inv = <<>> THEN Raised("KeyError")
  ELSE Ok(SelectSeq(all_inv, keep_open))

\* what the page endpoint answers with
PageStatuses == {200, 500}

\* the body of the answer: an error body has no list of items
body_of(sv, p, status) == IF status >= 400 THEN <<>> ELSE page_of(sv, p)

Continued(r, reqs) ==
  [ret EXCEPT !.op = "fetch", !.st = r, !.trace = @ \o reqs,
              !.issued = @ + IssuedBy(reqs)]

\* One turn of the loop of ar.py fetch_open_invoices (fetch_open_bills is
\* the same code on /bills); on the empty page also lines 68-77.
FetchOpenPage ==
  /\ script = "ar" /\ loop.pc = "paging" /\ loop.page <= MaxPages + 1
  /\ \E o \in Answers("ar", cache, time), s \in PageStatuses :
       LET tk    == get_token("ar", cache, time, o, ret.issued + 1)
           batch == body_of(server, loop.page, s)
           reqs  == tk.requests
                      \o <<page_request(time, loop.page, tk.val, s, batch)>>
           df    == open_filter(loop.items)
       IN /\ cache' = tk.cache
          /\ IF tk.st # "ok"
             THEN /\ loop' = [loop EXCEPT !.pc = "raised"]
                  /\ ret' = Continued(tk.st, tk.requests)
                  /\ docs' = docs
             ELSE IF raise_for_status(s) # "ok"
             THEN /\ loop' = [loop EXCEPT !.pc = "raised"]
                  /\ ret' = Continued(raise_for_status(s), reqs)
                  /\ docs' = docs
             ELSE IF batch = <<>>
             THEN /\ loop' = [loop EXCEPT !.pc = "done"]
                  /\ ret' = Continued(df.st, reqs)
                  /\ docs' = df.rows
             ELSE /\ loop' = [loop EXCEPT !.items = @ \o batch,
                                         !.page = @ + 1]
                  /\ ret' = Continued("ok", reqs)
                  /\ docs' = docs
  /\ UNCHANGED <<script, time, server>>

\* pyth10.py fetch_all_bills / pyth4.py fetch_all_open_bills /
\* pyth11.py fetch_paginated up to the loop: the headers are built once
FetchAllBillsStart ==
  /\ script \in {"pyth10", "pyth4"} /\ loop.pc = "start"
  /\ \E o \in Answers(script, cache, time) :
       LET tk == get_token(script, cache, time, o, ret.issued + 1)
       IN /\ cache' = tk.cache
          /\ ret' = Continued(tk.st, tk.requests)
          /\ loop' = IF tk.st = "ok" THEN Loop("paging", 1, <<>>, tk.val)
                     ELSE [loop EXCEPT !.pc = "raised"]
  /\ UNCHANGED <<script, time, server>>

\* one turn of their loop; pyth4.py has no resp.raise_for_status() and
\* reads "bills" off whatever body came
FetchAllBillsPage ==
  /\ script \in {"pyth10", "pyth4"} /\ loop.pc = "paging"
  /\ loop.page <= MaxPages + 1
  /\ \E s \in PageStatuses :
       LET data == body_of(server, loop.page, s)
           reqs == <<page_request(time, loop.page, loop.headers, s, data)>>
       IN IF script # "pyth4" /\ raise_for_status(s) # "ok"
          THEN /\ loop' = [loop EXCEPT !.pc = "raised"]
               /\ ret' = Continued(raise_for_status(s), reqs)
          ELSE /\ ret' = Continued("ok", reqs)
               /\ loop' =
                    IF data = <<>> THEN [loop EXCEPT !.pc = "done"]
                    ELSE IF stop_on_short(script, data)
                    THEN [loop EXCEPT !.pc = "done", !.items = @ \o data]
                    ELSE [loop EXCEPT !.items = @ \o data, !.page = @ + 1]
  /\ UNCHANGED <<script, time, server, cache>>

\* no token code, no fetch
NoNet ==
  /\ script = "none" /\ cache = InitialCache(<<>>) /\ time = 1
  /\ ret = NoRet /\ server = Server(<<>>, 0) /\ loop = Loop("idle", 0, <<>>, <<>>)

\* ------------------------------------------------------------ specifications
EmptySheet == MkSheet(0, <<>>, <<>>, <<>>)

ReportVars ==
  <<sheet, out, as_of, aging, bills, payments, credits, today, table, call>>
NetVars == <<script, cache, time, ret, server, loop>>

Init ==
  /\ InitTree
  /\ docs = <<>> /\ as_of = MaxDays /\ aging = NoAging
  /\ NoBills
  /\ NoNet

Next ==
  \/ FlattenBs /\ UNCHANGED <<docs, as_of, aging, bills, payments, credits, today, table, call>> /\ UNCHANGED NetVars
  \/ FetchFlat /\ UNCHANGED <<docs, as_of, aging, bills, payments, credits, today, table, call>> /\ UNCHANGED NetVars
  \/ Fetch4Cols /\ UNCHANGED <<docs, as_of, aging, bills, payments, credits, today, table, call>> /\ UNCHANGED NetVars
  \/ CreatePnl /\ UNCHANGED <<docs, as_of, aging, bills, payments, credits, today, table, call>> /\ UNCHANGED NetVars

Spec == Init /\ [][Next]_vars

InitA ==
  /\ InitAging
  /\ sheet = EmptySheet /\ out = NoOut
  /\ NoBills
  /\ NoNet

NextA ==
  \/ ArAging /\ UNCHANGED <<sheet, out, bills, payments, credits, today, table, call>> /\ UNCHANGED NetVars
  \/ ApAging /\ UNCHANGED <<sheet, out, bills, payments, credits, today, table, call>> /\ UNCHANGED NetVars

SpecAging == InitA /\ [][NextA]_vars

InitB ==
  /\ InitBills \/ InitCall
  /\ sheet = EmptySheet /\ out = NoOut
  /\ docs = <<>> /\ as_of = MaxDays /\ aging = NoAging
  /\ NoNet

NextB ==
  \/ LoadData /\ UNCHANGED <<sheet, out, docs, as_of, aging>> /\ UNCHANGED NetVars
  \/ AssignAgingBucket /\ UNCHANGED <<sheet, out, docs, as_of, aging>> /\ UNCHANGED NetVars

SpecBills == InitB /\ [][NextB]_vars

\* bs2.py on the balance sheets Zoho Books lays out under "Assets"
InitBs2 ==
  /\ IsAssetsSheet(sheet) /\ out = NoOut
  /\ docs = <<>> /\ as_of = MaxDays /\ aging = NoAging
  /\ NoBills
  /\ NoNet

NextBs2 ==
  Fetch4Cols /\ UNCHANGED <<docs, as_of, aging, bills, payments, credits, today, table, call>> /\ UNCHANGED NetVars

SpecBs2 == InitBs2 /\ [][NextBs2]_vars

\* no report, no aging and no bill table
NoReport ==
  /\ sheet = EmptySheet /\ out = NoOut
  /\ docs = <<>> /\ as_of = MaxDays /\ aging = NoAging
  /\ NoBills

\* the token code of a process, and bs7.py fetch_bs on top of it
InitAuth ==
  /\ script \in {"ar", "app", "pyth3", "bs7"}
  /\ cache \in InitialCaches(script)
  /\ time = 1 /\ ret = NoRet
  /\ server = Server(<<>>, 0) /\ loop = Loop("idle", 0, <<>>, <<>>)
  /\ NoReport

NextAuth ==
  \/ GetAccessToken /\ UNCHANGED docs /\ UNCHANGED ReportVars
  \/ FetchBs /\ UNCHANGED docs /\ UNCHANGED ReportVars
  \/ Tick /\ UNCHANGED docs /\ UNCHANGED ReportVars

SpecAuth == InitAuth /\ [][NextAuth]_vars

\* a paginated fetch against a server, in a fresh process
InitFetch ==
  /\ script \in {"ar", "pyth10", "pyth4"}
  /\ cache \in InitialCaches(script)
  /\ server \in ServersOf(script)
  /\ loop = IF script = "ar" THEN Loop("paging", 1, <<>>, <<>>)
            ELSE Loop("start", 1, <<>>, <<>>)
  /\ time = 1 /\ ret = NoRet
  /\ NoReport

NextFetch ==
  \/ FetchOpenPage /\ UNCHANGED ReportVars
  \/ FetchAllBillsStart /\ UNCHANGED docs /\ UNCHANGED ReportVars
  \/ FetchAllBillsPage /\ UNCHANGED docs /\ UNCHANGED ReportVars
  \/ Tick /\ UNCHANGED docs /\ UNCHANGED ReportVars

SpecFetch == InitFetch /\ [][NextFetch]_vars

\* ================================================================ claims
\* Tree notions used to state the claims; they are read off the child lists
\* of the sheet and not off any flattener.
HasResolvableName(sh, k) == Truthy(sh.name[k]) \/ Truthy(sh.total_label[k])

NamedNodes(sh) == {k \in NodesOf(sh) : HasResolvableName(sh, k)}

ParentOf(sh, k) ==
  IF \E j \in NodesOf(sh) : k \in Range(sh.kids[j])
  THEN CHOOSE j \in NodesOf(sh) : k \in Range(sh.kids[j])
  ELSE 0

RECURSIVE Ancestors(_, _)
Ancestors(sh, k) ==
  IF ParentOf(sh, k) = 0 THEN {}
  ELSE {ParentOf(sh, k)} \cup Ancestors(sh, ParentOf(sh, k))

TreeDepth(sh, k) == Cardinality(Ancestors(sh, k))

\* The list (of children, or of top-level sections) that holds node k.
ListOf(sh, k) ==
  IF ParentOf(sh, k) = 0 THEN sh.top ELSE sh.kids[ParentOf(sh, k)]

Subtree(sh, k) == {k} \cup {j \in NodesOf(sh) : k \in Ancestors(sh, j)}

RowIds(rows) == {rows[i].id : i \in 1..Len(rows)}

RowOf(rows, k) == CHOOSE i \in 1..Len(rows) : rows[i].id = k

Populated(r) ==
  {c \in {"First Total", "Sub Total", "Grand Total"} :
     CASE c = "First Total" -> r.FirstTotal # <<>>
       [] c = "Sub Total"   -> r.SubTotal # <<>>
       [] OTHER             -> r.GrandTotal # <<>>}

Done(op) == out.op = op /\ out.st = "ok"

\* C1: every row of fetch_balance_sheet_4cols has exactly one of Grand Total /
\* Sub Total / First Total populated: Grand Total iff its node is at depth 0
\* of the sheet as walked, Sub Total iff depth > 0 and the node has a child,
\* First Total iff depth > 0 and it has none (a childless top-level node is
\* Grand Total).
C1_OneRulePerRow ==
  Done("fetch_balance_sheet_4cols") =>
    \A i \in 1..Len(out.rows) :
      LET r == out.rows[i]
          d == TreeDepth(sheet, r.id)
          leaf == sheet.kids[r.id] = <<>>
      IN /\ Cardinality(Populated(r)) = 1
         /\ ("Grand Total" \in Populated(r)) <=> (d = 0)
         /\ ("Sub Total" \in Populated(r)) <=> (d > 0 /\ ~leaf)
         /\ ("First Total" \in Populated(r)) <=> (d > 0 /\ leaf)

C1_Witness ==
  /\ Done("fetch_balance_sheet_4cols")
  /\ \E i, j, k \in 1..Len(out.rows) :
       /\ out.rows[i].GrandTotal # <<>> /\ sheet.kids[out.rows[i].id] = <<>>
       /\ out.rows[j].SubTotal # <<>>
       /\ out.rows[k].FirstTotal # <<>>

\* C2: flatten_bs and fetch_flat_balance_sheet return one row per node with
\* a resolvable name (name, else total_label) and none for the other nodes,
\* whose descendants are still visited.
C2_RowPerNamedNode ==
  (Done("flatten_bs") \/ Done("fetch_flat_balance_sheet")) =>
    /\ Len(out.rows) = Cardinality(NamedNodes(sheet))
    /\ RowIds(out.rows) = NamedNodes(sheet)

C2_Witness ==
  /\ Done("fetch_flat_balance_sheet")
  /\ Len(out.rows) = 2
  /\ \E k \in NodesOf(sheet) \ NamedNodes(sheet) :
       \E j \in NamedNodes(sheet) : k \in Ancestors(sheet, j)
  /\ \E k \in NodesOf(sheet) : sheet.name[k] = "" /\ k \in RowIds(out.rows)

\* The place of node k in the forest: the positions, in their lists, of the
\* top-level section above k, ..., of k's parent, and of k.
RECURSIVE PlaceOf(_, _)
PlaceOf(sh, k) ==
  (IF ParentOf(sh, k) = 0 THEN <<>> ELSE PlaceOf(sh, ParentOf(sh, k)))
  \o <<IndexOf(ListOf(sh, k), k)>>

\* u is a proper prefix of v (u's node is an ancestor of v's), or u is
\* smaller at the first position where they differ (there u's node is in the
\* subtree of an earlier element of the same list).
Before(u, v) ==
  \E i \in 1..Len(v) :
    /\ \A j \in 1..(i - 1) : j <= Len(u) /\ u[j] = v[j]
    /\ \/ i = Len(u) + 1
       \/ i <= Len(u) /\ u[i] < v[i]

\* C3: the rows of flatten_bs are a pre-order serialization: a node's row
\* comes before the rows of its descendants, and for two nodes x, y of one
\* list (siblings, or top-level sections), x before y, every row of x's
\* subtree comes before every row of y's subtree.  Both relations are the
\* order Before of the nodes' places, which is transitive, so it is stated
\* for each row and the next.
C3_PreOrder ==
  Done("flatten_bs") =>
    \A i \in 1..(Len(out.rows) - 1) :
      Before(PlaceOf(sheet, out.rows[i].id),
             PlaceOf(sheet, out.rows[i + 1].id))

C3_Witness ==
  /\ Done("flatten_bs")
  /\ Len(out.rows) = 4
  /\ \E i \in 1..3 : out.rows[i].id > out.rows[i + 1].id
  /\ \E i \in 1..3 : out.rows[i].Depth > out.rows[i + 1].Depth

NamedAncestors(sh, k) == Ancestors(sh, k) \cap NamedNodes(sh)

\* C4 (as claimed): the children of a node with neither name nor total_label
\* are walked at the depth of that node, so the depth of a row is the number
\* of named ancestors of its node (flatten_bs and the bs2.py walk).
C4_DepthCountsNamedAncestors ==
  /\ Done("flatten_bs") =>
       \A i \in 1..Len(out.rows) :
         out.rows[i].Depth
           = Cardinality(NamedAncestors(sheet, out.rows[i].id))
  /\ Done("fetch_balance_sheet_4cols") =>
       \A i \in 1..Len(out.rows) :
         out.rows[i].depth
           = Cardinality(NamedAncestors(sheet, out.rows[i].id))

\* C5 (as claimed): when some top-level node is named, the first row has
\* depth 0 and, in fetch_balance_sheet_4cols, is a Grand Total row.
C5_FirstRowIsGrandTotal ==
  (\E i \in 1..Len(sheet.top) : HasResolvableName(sheet, sheet.top[i])) =>
    /\ Done("flatten_bs") => out.rows[1].Depth = 0
    /\ Done("fetch_balance_sheet_4cols") =>
         out.rows[1].depth = 0 /\ out.rows[1].GrandTotal # <<>>

Malformed(t) == t.kind \in {"absent", "null", "badstr"}

\* C6 (as claimed): flatten_bs and the bs2.py walk never raise on a total
\* that is absent, null or non-numeric: they complete with a row for every
\* named node, and the amount of a row whose total is malformed is 0.
C6_MalformedAmountIsZero ==
  /\ out.op \in {"flatten_bs", "fetch_balance_sheet_4cols"} =>
       out.st = "ok" /\ RowIds(out.rows) = NamedNodes(sheet)
  /\ Done("flatten_bs") =>
       \A i \in 1..Len(out.rows) :
         Malformed(sheet.total[out.rows[i].id]) => out.rows[i].Total = 0
  /\ Done("fetch_balance_sheet_4cols") =>
       \A i \in 1..Len(out.rows) :
         Malformed(sheet.total[out.rows[i].id]) =>
           <<0>> \in {out.rows[i].FirstTotal, out.rows[i].SubTotal,
                      out.rows[i].GrandTotal}

PureOps == {"flatten_bs", "fetch_flat_balance_sheet", "create_pnl_dataframe"}

Occurrences(sh, k) ==
  Cardinality({i \in 1..Len(sh.top) : sh.top[i] = k})
  + Cardinality({<<j, i>> \in NodesOf(sh) \X (1..Cardinality(NodesOf(sh))) :
                   i <= Len(sh.kids[j]) /\ sh.kids[j][i] = k})

Aged == aging.op # "none" /\ aging.st = "ok"

\* The bucket the days-overdue convention gives a day count.
BucketOfDays(days) ==
  IF days <= 0 THEN "Current"
  ELSE IF days <= 15 THEN "1-15 days"
  ELSE IF days <= 30 THEN "16-30 days"
  ELSE IF days <= 45 THEN "31-45 days"
  ELSE ">45 days"

\* C9: every document compute_aging keeps has days_overdue = as_of - due_date
\* and exactly one bucket: Current for days_overdue <= 0, "1-15 days" for
\* 1..15, "16-30 days" for 16..30, "31-45 days" for 31..45, ">45 days" from
\* 46 on.
C9_OneBucketPerDayCount ==
  Aged =>
    \A i \in 1..Len(aging.df) :
      LET r == aging.df[i]
      IN /\ r.days_overdue = as_of - docs[r.index].due_date[1]
         /\ r.Bucket = <<BucketOfDays(r.days_overdue)>>

C9_Witness ==
  /\ Aged
  /\ Len(aging.df) = 2
  /\ aging.df[1].days_overdue = 46 /\ aging.df[1].Bucket = <<">45 days">>
  /\ aging.df[2].days_overdue = 1 /\ aging.df[2].Bucket = <<"1-15 days">>

Included(d) == d.due_date # <<>> /\ d.due_date[1] <= as_of

\* Sum of the balances of the first i documents that are of counterparty
\* `name`, due on or before as_of, and in one of the buckets `among`.
RECURSIVE BalanceOfIncluded(_, _, _)
BalanceOfIncluded(name, among, i) ==
  IF i = 0 THEN 0
  ELSE (IF /\ docs[i].counterparty = name
           /\ Included(docs[i])
           /\ BucketOfDays(as_of - docs[i].due_date[1]) \in among
        THEN docs[i].balance ELSE 0)
       + BalanceOfIncluded(name, among, i - 1)

\* C10: a document due after as_of is in no row of the aging frame and adds
\* nothing to a bucket cell or a Total of the summary (each Total is within
\* half a cent of the sum of the balances of the counterparty's documents
\* due on or before as_of, each cell is the sum for its bucket,
\* and a counterparty without such a document has no summary row); a
\* document due on as_of is kept, in Current.
C10_FutureDueExcluded ==
  Aged =>
    /\ \A i \in 1..Len(docs) :
         LET due == docs[i].due_date
             hit == {j \in 1..Len(aging.df) : aging.df[j].index = i}
         IN /\ (due # <<>> /\ due[1] > as_of) => hit = {}
            /\ (due = <<as_of>>) =>
                 \E j \in hit : aging.df[j].Bucket = <<"Current">>
    /\ \A s \in 1..Len(aging.summary) :
         LET row == aging.summary[s]
             sum == BalanceOfIncluded(row.counterparty, Range(labels),
                                      Len(docs))
         IN /\ row.Total - sum \in (0 - 5)..5
            /\ \A b \in 1..Len(labels) :
                 row.cells[b]
                   = BalanceOfIncluded(row.counterparty, {labels[b]}, Len(docs))
    /\ \A n \in 1..Len(Names) :
         (\E s \in 1..Len(aging.summary) :
            aging.summary[s].counterparty = Names[n])
         <=> (\E i \in 1..Len(docs) :
                docs[i].counterparty = Names[n] /\ Included(docs[i]))

C10_Witness ==
  /\ Aged
  /\ Len(docs) = 2
  /\ docs[1].counterparty = docs[2].counterparty
  /\ docs[1].due_date = <<as_of + 1>>
  /\ docs[2].due_date = <<as_of>>
  /\ Len(aging.summary) = 1
  /\ aging.summary[1].Total = docs[2].balance
  /\ aging.summary[1].cells[1] = docs[2].balance

\* ------------------------------------------------- aging summary (ar.py)
NoDueDate(d) == d.due_date = <<>>

AgingRan == aging.op # "none"

\* C11: a document with no due date is excluded entirely: compute_aging does
\* not raise because of it, it is in no row of the aging frame (so it has no
\* bucket), and every bucket cell is the sum of the balances of the
\* counterparty's documents that have a due date on or before as_of.
C11_MissingDueDateExcluded ==
  (AgingRan /\ \E i \in 1..Len(docs) : NoDueDate(docs[i])) =>
    /\ aging.st = "ok"
    /\ \A i \in 1..Len(docs) :
         NoDueDate(docs[i]) =>
           \A j \in 1..Len(aging.df) : aging.df[j].index # i
    /\ \A s \in 1..Len(aging.summary) :
         \A b \in 1..Len(labels) :
           aging.summary[s].cells[b]
             = BalanceOfIncluded(aging.summary[s].counterparty, {labels[b]},
                                 Len(docs))

\* balance / exchange_rate with a missing or zero rate read as 1
GuardedFcy(d) ==
  IF d.exchange_rate # <<>> /\ d.exchange_rate[1] # 0
  THEN d.balance \div d.exchange_rate[1]
  ELSE d.balance

\* C12: fcy_balance is balance / exchange_rate for a nonzero rate and balance
\* for an absent or zero rate, and Total (FCY) of every summary row is a
\* finite number (no Infinity, no NaN).
C12_FcyGuarded ==
  Aged =>
    /\ \A j \in 1..Len(aging.df) :
         aging.df[j].fcy_balance = Fin(GuardedFcy(docs[aging.df[j].index]))
    /\ \A s \in 1..Len(aging.summary) :
         aging.summary[s].TotalFCY.kind = "fin"

RECURSIVE SumCells(_, _)
SumCells(cells, b) == IF b = 0 THEN 0 ELSE cells[b] + SumCells(cells, b - 1)

\* C13: in every summary row Total is the sum of the five bucket cells, and
\* each cell is the sum of the balances of the counterparty's included
\* documents of that bucket (0 when there is none).
C13_TotalIsSumOfCells ==
  Aged =>
    \A s \in 1..Len(aging.summary) :
      LET row == aging.summary[s]
      IN /\ DOMAIN row.cells = 1..5
         /\ row.Total = SumCells(row.cells, 5)
         /\ \A b \in 1..Len(labels) :
              row.cells[b]
                = BalanceOfIncluded(row.counterparty, {labels[b]}, Len(docs))

RECURSIVE SumIncluded(_)
SumIncluded(i) ==
  IF i = 0 THEN 0
  ELSE (IF Included(docs[i]) THEN docs[i].balance ELSE 0) + SumIncluded(i - 1)

RECURSIVE SumAllCells(_, _)
SumAllCells(summary, s) ==
  IF s = 0 THEN 0
  ELSE SumCells(summary[s].cells, 5) + SumAllCells(summary, s - 1)

RECURSIVE SumTotals(_, _)
SumTotals(summary, s) ==
  IF s = 0 THEN 0 ELSE summary[s].Total + SumTotals(summary, s - 1)

\* C14: conservation: the bucket cells of all summary rows add up to the sum
\* of the balances of exactly the included documents (due date present and
\* on or before as_of), and so does the Total column.
C14_Conservation ==
  Aged =>
    /\ SumAllCells(aging.summary, Len(aging.summary)) = SumIncluded(Len(docs))
    /\ SumTotals(aging.summary, Len(aging.summary)) = SumIncluded(Len(docs))

\* the counterparties of the first i documents that are included, each once,
\* in the order of their first document
RECURSIVE FirstAppearance(_)
FirstAppearance(i) ==
  IF i = 0 THEN <<>>
  ELSE LET before == FirstAppearance(i - 1)
       IN IF Included(docs[i]) /\ docs[i].counterparty \notin Range(before)
          THEN Append(before, docs[i].counterparty)
          ELSE before

\* C15: the summary rows are in the order in which their counterparties
\* first appear in the input documents.
C15_RowsInFirstAppearanceOrder ==
  Aged =>
    [s \in 1..Len(aging.summary) |-> aging.summary[s].counterparty]
      = FirstAppearance(Len(docs))

\* C16: whatever the documents, the summary's columns are the counterparty
\* column, Total (FCY), the five buckets in their fixed order, and Total, and
\* every row has a cell for each of the five buckets.
C16_FixedColumns ==
  Aged =>
    /\ aging.columns
         = << IF aging.op = "ar" THEN "Customer Name" ELSE "Vendor Name",
              "Total (FCY)", "Current", "1-15 days", "16-30 days",
              "31-45 days", ">45 days", "Total" >>
    /\ \A s \in 1..Len(aging.summary) : DOMAIN aging.summary[s].cells = 1..5

\* one document, so four buckets hold nothing
C16_Witness ==
  /\ Aged
  /\ Len(docs) = 1
  /\ Len(aging.summary) = 1
  /\ Len(aging.columns) = 8
  /\ aging.summary[1].cells[4] = docs[1].balance
  /\ \A b \in {1, 2, 3, 5} : aging.summary[1].cells[b] = 0

\* the documents that have a due date
Scheduled == SelectSeq(docs, LAMBDA d : ~NoDueDate(d))

\* C17: a document without a due date shows in the output: the summary of
\* documents of which some have a due date and some have none is not the
\* one the same documents give once those without a due date are taken out.
C17_MissingDueDateVisible ==
  (Aged /\ Scheduled # <<>> /\ \E i \in 1..Len(docs) : NoDueDate(docs[i])) =>
    <<aging.summary, aging.columns>>
      # << aging_summary(compute_aging(Scheduled, as_of).rows),
           summary_columns(compute_aging(Scheduled, as_of).rows,
                           IF aging.op = "ar" THEN "customer_name"
                           ELSE "vendor_name") >>

\* ------------------------------------------ signed-offset aging (pyth7.py)
\* The bucket the signed-offset convention gives a whole day count.
SignedBucket(n) ==
  CASE n < 0 -> "Overdue"
    [] n \in 0..30 -> "0-30 days"
    [] n \in 31..60 -> "31-60 days"
    [] n \in 61..90 -> "61-90 days"
    [] n >= 91 -> ">90 days"

Called == call.st \notin {"idle", "none"}

Loaded == table.op = "load_data" /\ table.st = "ok"

\* C18: assign_aging_bucket gives every whole day count exactly one bucket:
\* Overdue below 0, "0-30 days" for 0..30, "31-60 days" for 31..60, "61-90
\* days" for 61..90 and ">90 days" from 91 on; so does the aging_bucket
\* column of load_data for days_to_due.
C18_SignedBuckets ==
  /\ (Called /\ call.arg # <<>>) =>
       call.st = "ok" /\ call.val = SignedBucket(call.arg[1])
  /\ Loaded =>
       \A i \in 1..Len(table.rows) :
         table.rows[i].aging_bucket = SignedBucket(table.rows[i].days_to_due)

C18_Witness ==
  /\ Called
  /\ call.arg = <<30>>
  /\ call.val = "0-30 days"

\* C19: assign_aging_bucket called with NaN raises TypeError and returns no
\* bucket.
C19_NanRaisesTypeError ==
  (Called /\ call.arg = <<>>) => call.st = "TypeError" /\ call.val = ""

\* the sum of column `field` over the first i rows recorded for bill id
RECURSIVE Recorded(_, _, _, _)
Recorded(rows, field, id, i) ==
  IF i = 0 THEN 0
  ELSE (IF rows[i].bill_id = id THEN rows[i][field] ELSE 0)
       + Recorded(rows, field, id, i - 1)

\* C20: in the frame load_data returns, every bill has amount_due = total -
\* (sum of its payments) - (sum of its credits), a missing sum being 0; the
\* amount is not clamped at 0.
C20_AmountDue ==
  Loaded =>
    /\ Len(table.rows) = Len(bills)
    /\ \A i \in 1..Len(bills) :
         /\ table.rows[i].bill_id = bills[i].bill_id
         /\ table.rows[i].amount_due
              = bills[i].total
                - Recorded(payments, "paid_amount", bills[i].bill_id,
                           Len(payments))
                - Recorded(credits, "credit_amount", bills[i].bill_id,
                           Len(credits))

\* one bill paid twice and credited once, overpaid; the other untouched
C20_Witness ==
  /\ Loaded
  /\ Len(bills) = 2
  /\ Len(payments) = 2 /\ Len(credits) = 1
  /\ table.rows[1].amount_due < 0
  /\ table.rows[1].total_paid = 100 /\ table.rows[1].total_credit = 60
  /\ table.rows[2].amount_due = bills[2].total

\* ------------------------------------------- "Other Current Assets" (bs2.py)
\* The first element of `nodes` named `wanted`, 0 if there is none.
FirstNodeNamed(sh, nodes, wanted) ==
  IF \E i \in 1..Len(nodes) : sh.name[nodes[i]] = wanted
  THEN nodes[CHOOSE i \in 1..Len(nodes) :
               /\ sh.name[nodes[i]] = wanted
               /\ \A j \in 1..(i - 1) : sh.name[nodes[j]] # wanted]
  ELSE 0

\* The "Other Current Assets" node under Assets -> Current Assets, 0 if the
\* sheet has none.
OtherCurrentUnderCurrentAssets(sh) ==
  LET a == FirstNodeNamed(sh, sh.top, "Assets")
      c == IF a = 0 THEN 0 ELSE FirstNodeNamed(sh, sh.kids[a], "Current Assets")
  IN IF c = 0 THEN 0
     ELSE FirstNodeNamed(sh, sh.kids[c], "Other Current Assets")

\* C25: fetch_balance_sheet_4cols takes the node "Other Current Assets" out
\* from under Assets -> Current Assets and makes it the top-level section
\* right after Assets: it is no longer inside Assets, its row comes right
\* after the rows of the Assets subtree, and its total is in Grand Total.
C25_OtherCurrentPromoted ==
  [][ LET a == FirstNodeNamed(sheet, sheet.top, "Assets")
          o == OtherCurrentUnderCurrentAssets(sheet)
      IN (out.op = "none" /\ o # 0 /\ out'.st = "ok") =>
           /\ o \notin Subtree(sheet', a)
           /\ \E i \in 1..(Len(sheet'.top) - 1) :
                sheet'.top[i] = a /\ sheet'.top[i + 1] = o
           /\ \E r \in 1..Len(out'.rows) :
                /\ out'.rows[r].id = o
                /\ out'.rows[r].GrandTotal # <<>>
                /\ \A q \in 1..Len(out'.rows) :
                     out'.rows[q].id \in Subtree(sheet', a) <=>
                       (q < r /\ q >= r - Cardinality(Subtree(sheet', a)))
    ]_vars

\* ---------------------------------------- signed-offset summary (pyth7.py)
RECURSIVE SumOfField(_, _, _)
SumOfField(rows, field, i) ==
  IF i = 0 THEN 0 ELSE rows[i][field] + SumOfField(rows, field, i - 1)

RECURSIVE AmountDueOfAll(_)
AmountDueOfAll(i) ==
  IF i = 0 THEN 0
  ELSE bills[i].total
       - Recorded(payments, "paid_amount", bills[i].bill_id, Len(payments))
       - Recorded(credits, "credit_amount", bills[i].bill_id, Len(credits))
       + AmountDueOfAll(i - 1)

\* C29: load_data excludes no bill: every bill, future-dated or without a
\* due date, has a row with one of the five buckets, total_due over the
\* summary is the sum of amount_due over all bills, and the counts add up to
\* the number of bills.
C29_NoBillExcluded ==
  (table.op = "load_data" /\ bills # <<>>) =>
    /\ table.st = "ok"
    /\ Len(table.rows) = Len(bills)
    /\ \A i \in 1..Len(table.rows) :
         table.rows[i].aging_bucket \in Range(SortedBuckets)
    /\ SumOfField(table.summary, "total_due", Len(table.summary))
         = AmountDueOfAll(Len(bills))
    /\ SumOfField(table.summary, "count", Len(table.summary)) = Len(bills)

\* ---------------------------------------- token cache
\* a step that is one call of get_token / get_access_token
TokenCall == ret'.op = "get_access_token" /\ ret'.calls = ret.calls + 1

Lifetime(q) ==
  IF q.expires_in = <<>> THEN default_expires_in ELSE q.expires_in[1]

\* C23: a call returns the cached token without a request to the token
\* endpoint only if a token is cached and the time is before expires_at;
\* otherwise it asks the endpoint, and a successful refresh is cached with
\* expires_at = time + expires_in - 60 and returned.
C23_CachedOnlyWhileValid ==
  [][ TokenCall =>
        LET valid == cache.access_token # <<>> /\ time < cache.expires_at
        IN /\ ret'.trace = <<>> =>
                valid /\ ret'.st = "ok" /\ ret'.val = cache.access_token
                      /\ cache' = cache
           /\ ~valid =>
                /\ Len(ret'.trace) = 1 /\ ret'.trace[1].url = "token"
                /\ ret'.st = "ok" =>
                     /\ ret'.val = ret'.trace[1].token
                     /\ cache'.access_token = ret'.val
                     /\ cache'.access_token # cache.access_token
                     /\ cache'.expires_at
                          = time + Lifetime(ret'.trace[1]) - 60
    ]_vars

\* C26: a refresh that fails (error status, or no access_token in the
\* answer) leaves both cache fields as they were and raises to the caller,
\* and the call after it asks the endpoint again when the cached token is
\* missing or expired.
C26_FailedRefreshLeavesCache ==
  [][ TokenCall =>
        /\ (ret'.trace # <<>> /\ ret'.trace[1].result # "ok") =>
             /\ cache' = cache
             /\ ret'.st \in {"HTTPError", "KeyError"}
             /\ ret'.val = <<>>
        /\ ( /\ ret.op = "get_access_token" /\ ret.st # "ok"
             /\ (cache.access_token = <<>> \/ time >= cache.expires_at) ) =>
             /\ ret'.trace # <<>>
             /\ ret'.trace[1].url = "token"
    ]_vars

\* a refresh succeeded in the call after a failed one
C26_Witness ==
  /\ ret.op = "get_access_token" /\ ret.calls = 2 /\ ret.st = "ok"
  /\ ret.trace # <<>> /\ ret.issued = 1

\* C27: the first call of a process asks the token endpoint, also when
\* ZOHO_ACCESS_TOKEN is in the cache, and no call returns that token.
C27_FirstCallRefreshes ==
  ret.op = "get_access_token" =>
    /\ ret.calls = 1 =>
         ret.trace # <<>> /\ ret.trace[1].url = "token"
    /\ ret.st = "ok" => ret.val # <<>> /\ ret.val # <<EnvToken>>

\* the first call, with the environment's token in the cache, asked the
\* endpoint (which refused)
C27_Witness ==
  /\ script = "app" /\ ret.op = "get_access_token" /\ ret.calls = 1
  /\ cache.access_token = <<EnvToken>> /\ ret.trace # <<>>

\* ---------------------------------------- bs7.py fetch_bs
ReportPlaces(tr) == {i \in 1..Len(tr) : tr[i].url = "report"}

Outcome(status) == IF status = 200 THEN "ok" ELSE "HTTPError"

\* C22: a call of fetch_bs makes at most two report requests; a first
\* answer other than 401 is final; after a 401 the next request is a token
\* refresh, and when a token comes of it the report is requested once more
\* with the new token, whose answer is final, a second 401 included.
C22_RetriesOnceOn401 ==
  ret.op = "fetch_bs" =>
    LET tr     == ret.trace
        places == ReportPlaces(tr)
        first  == CHOOSE i \in places : \A k \in places : i <= k
    IN /\ Cardinality(places) <= 2
       /\ places = {} => ret.st \in {"HTTPError", "KeyError"}
       /\ places # {} =>
            /\ tr[first].status # 401 =>
                 /\ places = {Len(tr)}
                 /\ ret.st = Outcome(tr[first].status)
            /\ tr[first].status = 401 =>
                 /\ first < Len(tr) /\ tr[first + 1].url = "token"
                 /\ Cardinality(places) = 2 <=>
                      \A i \in (first + 1)..Len(tr) :
                        tr[i].url = "token" => tr[i].result = "ok"
                 /\ Cardinality(places) = 1 =>
                      ret.st \in {"HTTPError", "KeyError"}
                 /\ Cardinality(places) = 2 =>
                      /\ Len(tr) \in places
                      /\ tr[Len(tr)].token # tr[first].token
                      /\ tr[Len(tr)].token = cache.access_token
                      /\ \E i \in (first + 1)..(Len(tr) - 1) :
                           tr[i].token = tr[Len(tr)].token
                      /\ ret.st = Outcome(tr[Len(tr)].status)

\* the retry was answered 401 as well, and the call raised
C22_Witness ==
  /\ ret.op = "fetch_bs" /\ ret.st = "HTTPError"
  /\ Cardinality(ReportPlaces(ret.trace)) = 2
  /\ ret.trace[Len(ret.trace)].status = 401

\* ---------------------------------------- paginated fetch
PageRequests(tr) == SelectSeq(tr, LAMBDA q : q.url = "page")

\* the pages 1..n of the server, one after the other
RECURSIVE PagesUpTo(_)
PagesUpTo(n) ==
  IF n = 0 THEN <<>>
  ELSE PagesUpTo(n - 1)
         \o (IF n <= Len(server.pages) THEN server.pages[n]
             ELSE PageOfLength(n, server.tail))

ClosedSpellings ==
  {"draft", "Draft", "DRAFT", "void", "Void", "VOID", "paid", "Paid", "PAID"}

IsOpen(d) == d.status \notin ClosedSpellings /\ d.balance > 0

Fetched == script = "ar" /\ loop.pc = "done" /\ ret.st = "ok"

\* C21: what fetch_open_invoices / fetch_open_bills return is the fetched
\* documents whose status is, in any case, none of draft, void, paid and
\* whose balance is above 0, in the order fetched; compute_aging on the
\* very same documents drops none of them for its status or balance.
C21_OnlyOpenHandedOn ==
  Fetched =>
    /\ \A i \in 1..Len(docs) : IsOpen(docs[i])
    /\ docs = SelectSeq(loop.items, IsOpen)
    /\ LET a == compute_aging(loop.items, as_of)
       IN /\ a.st = "ok" /\ Len(a.rows) = Len(loop.items)
          /\ \A i \in 1..Len(a.rows) :
               a.rows[i].balance = loop.items[i].balance

\* a document with a balance was dropped for a status in capitals
C21_Witness ==
  /\ Fetched /\ Len(docs) = 1 /\ Len(loop.items) = 2
  /\ \E i \in 1..2 :
       loop.items[i].status = "PAID" /\ loop.items[i].balance > 0

\* C24: fetch_all_bills requests pages 1, 2, 3, ... in order, goes on only
\* after a page of per_page items, stops after the first page that is empty
\* or shorter, and returns the received pages one after the other.
C24_StopsOnShortPage ==
  script \in {"pyth10", "pyth4"} =>
    LET rq == PageRequests(ret.trace)
        n  == Len(rq)
    IN /\ \A j \in 1..n : rq[j].page = j
       /\ \A j \in 1..(n - 1) : rq[j].count = per_page
       /\ loop.pc = "done" => n >= 1 /\ rq[n].count < per_page
       /\ loop.pc = "paging" =>
            /\ loop.page = n + 1
            /\ n >= 1 => rq[n].count = per_page
       /\ loop.pc \in {"paging", "done"} =>
            loop.items = PagesUpTo(IF n >= 1 /\ rq[n].count = 0 THEN n - 1 ELSE n)

\* a full page, then a short one, and the loop ended
C24_Witness ==
  /\ script = "pyth10" /\ loop.pc = "done"
  /\ LET rq == PageRequests(ret.trace)
     IN Len(rq) = 2 /\ rq[1].count = per_page /\ rq[2].count = per_page - 1
  /\ Len(loop.items) = 2 * per_page - 1

\* C28: fetch_open_invoices requests pages 1, 2, ... in order and leaves
\* its loop only on an empty page: N + 1 requests against N non-empty pages
\* and then an empty one, none against a server without an empty page; the
\* items are those of pages 1..N in order; and each request carries the
\* token of the latest refresh, which is never an expired one unless it was
\* issued for that very request.
C28_StopsOnlyOnEmptyPage ==
  script = "ar" =>
    LET tr == ret.trace
        rq == PageRequests(tr)
        n  == Len(rq)
    IN /\ \A j \in 1..n : rq[j].page = j
       /\ \A j \in 1..(n - 1) : rq[j].count > 0
       /\ loop.pc = "paging" =>
            /\ loop.page = n + 1 /\ loop.items = PagesUpTo(n)
            /\ n >= 1 => rq[n].count > 0
       /\ loop.pc = "done" =>
            /\ server.tail = 0
            /\ n = Len(server.pages) + 1
            /\ rq[n].count = 0 /\ rq[n].status = 200
            /\ loop.items = PagesUpTo(Len(server.pages))
       /\ \A j \in 1..Len(tr) : tr[j].url = "page" =>
            \E i \in 1..(j - 1) :
              /\ tr[i].url = "token" /\ tr[i].result = "ok"
              /\ \A k \in (i + 1)..(j - 1) : tr[k].url # "token"
              /\ tr[j].token = tr[i].token
              /\ tr[j].at >= tr[i].at + Lifetime(tr[i]) - 60 => i = j - 1

\* two pages, the second a short one, then the empty page, with a refresh
\* between the pages
C28_Witness ==
  /\ script = "ar" /\ loop.pc = "done"
  /\ Len(server.pages) = 2 /\ Len(server.pages[1]) = 2
  /\ Len(server.pages[2]) = 1
  /\ Len(PageRequests(ret.trace)) = 3 /\ Len(loop.items) = 3
  /\ ret.issued >= 2

====
